---- MODULE Spec2Model ----
(***************************************************************************)
(* Model of src/server.js: the POST /create-video handler of the video     *)
(* service.  Every request is one run of the async handler; the handler    *)
(* is atomic between two awaits (Node runs it on one thread), so each      *)
(* action below is the code from the completion of one awaited call up to  *)
(* the next await (or up to the response).                                 *)
(***************************************************************************)
EXTENDS Integers, Sequences, FiniteSets, TLC

(***************************************************************************)
(* Bounds of the model.                                                    *)
(***************************************************************************)
NReq == 2          \* requests the clients send
MaxImages == 2     \* longest images[] list a client sends
MaxClock == 1      \* Date.now() takes the values 0..MaxClock
LongLen == 1001    \* length of the one long images[] list (indices 0..1000)

Requests == 1..NReq

(***************************************************************************)
(* JavaScript values, as far as the handler tells them apart.  A string    *)
(* is a sequence of tokens, a token being a run of characters the code     *)
(* never looks inside; the empty string is the empty sequence.             *)
(***************************************************************************)
Undef == [t |-> "undefined"]
Str(s) == [t |-> "string", v |-> s]
Num(n) == [t |-> "number", v |-> n]
Arr(a) == [t |-> "array", v |-> a]

\* ToBoolean: what `!x`, `x || y` and `if (x)` test.
Truthy(x) ==
  CASE x.t = "undefined" -> FALSE
    [] x.t = "string" -> x.v # <<>>
    [] x.t = "number" -> x.v # 0
    [] OTHER -> TRUE

\* a || b
OrElse(a, b) == IF Truthy(a) THEN a ELSE b

\* destructuring default: `x = d` applies only when the property is undefined
Default(x, d) == IF x = Undef THEN d ELSE x

IsArray(x) == x.t = "array"

(***************************************************************************)
(* What clients send and what the process environment holds.               *)
(***************************************************************************)
ImgUrls == {<<"http://img/1">>, <<"http://img/2">>}
AudioUrls == {<<"http://aud/1">>}
DurationValues == {Undef, Num(2)}
AssetRequests == [url : {Str(u) : u \in ImgUrls}, duration : DurationValues]
ImageLists == UNION {[1..n -> AssetRequests] : n \in 0..MaxImages}
ImagesValues == {Undef, Str(<<"not-a-list">>)} \cup {Arr(l) : l \in ImageLists}
AudioValues == {Undef} \cup {Str(u) : u \in AudioUrls}
OutputPathValues == {Undef, Str(<<"a", "/", "b.mp4">>)}
SizeValues == {Undef}
Bodies ==
  [images : ImagesValues, audio : AudioValues, outputPath : OutputPathValues,
   width : SizeValues, height : SizeValues, fps : SizeValues]
TokenHeaders == {Undef, Str(<<"tok">>), Str(<<"bad">>)}

Envs ==
  [AUTH_TOKEN : {Undef, Str(<<"tok">>)},
   SUPABASE_URL : {Undef, Str(<<"https://sb">>)},
   SUPABASE_BUCKET_VIDEOS : {Undef},
   SUPABASE_SERVICE_ROLE_KEY : {Undef, Str(<<"key">>)}]

\* A run that exercises the handler on every input: one request, any
\* header, any body, any environment.
SoloClients ==
  [count |-> 1, headers |-> TokenHeaders, bodies |-> Bodies, envs |-> Envs]

\* A run that exercises concurrency: NReq requests that all pass auth and
\* validation (a rejected request is answered in the step it arrives in and
\* shares nothing with the others), each with one of two image lists that
\* differ in every position.
AssetA == [url |-> Str(<<"http://img/1">>), duration |-> Undef]
AssetB == [url |-> Str(<<"http://img/2">>), duration |-> Num(2)]
CrowdLists == {<<AssetA>>, [i \in 1..MaxImages |-> IF i = 1 THEN AssetB ELSE AssetA]}
CrowdBodies ==
  [images : {Arr(l) : l \in CrowdLists}, audio : {Str(u) : u \in AudioUrls},
   outputPath : {Undef}, width : {Undef}, height : {Undef}, fps : {Undef}]
CrowdClients ==
  [count |-> NReq, headers |-> {Str(<<"tok">>)}, bodies |-> CrowdBodies,
   envs |-> {e \in Envs : e.AUTH_TOKEN = Str(<<"tok">>)}]

\* A run in which a client publishes twice: two requests, to the same
\* outputPath or to different ones, one after the other or overlapping;
\* either may carry a wrong token or lack its audio.
TwiceBodies ==
  [images : {Arr(<<AssetA>>), Arr(<<AssetB>>)}, audio : AudioValues,
   outputPath : OutputPathValues, width : {Undef}, height : {Undef}, fps : {Undef}]
TwiceClients ==
  [count |-> 2, headers |-> {Str(<<"tok">>), Str(<<"bad">>)}, bodies |-> TwiceBodies,
   envs |-> {e \in Envs : e.AUTH_TOKEN = Str(<<"tok">>)}]

\* A run that exercises the values a request carries: one request that
\* passes auth and validation, with durations that are absent, positive,
\* zero and negative, with and without outputPath, width, height and fps,
\* against a storage that is configured, with and without a bucket name.
DetailAssets ==
  [url : {Str(<<"http://img/1">>)}, duration : {Undef, Num(2), Num(0), Num(-1)}]
DetailLists ==
  {<<a>> : a \in DetailAssets} \cup {[i \in 1..MaxImages |-> AssetB]}
DetailBodies ==
  [images : {Arr(l) : l \in DetailLists}, audio : {Str(u) : u \in AudioUrls},
   outputPath : OutputPathValues, width : {Undef, Num(640)},
   height : {Undef, Num(360)}, fps : {Undef, Num(30)}]
DetailClients ==
  [count |-> 1, headers |-> {Undef}, bodies |-> DetailBodies,
   envs |-> [AUTH_TOKEN : {Undef}, SUPABASE_URL : {Str(<<"https://sb">>)},
             SUPABASE_BUCKET_VIDEOS : {Undef, Str(<<"my", " ", "clips">>)},
             SUPABASE_SERVICE_ROLE_KEY : {Str(<<"key">>)}]]

\* A run that exercises a long list: one request with LongLen images.
LongBodies ==
  [images : {Arr([i \in 1..LongLen |-> AssetA])},
   audio : {Str(u) : u \in AudioUrls},
   outputPath : {Undef}, width : {Undef}, height : {Undef}, fps : {Undef}]
LongClients ==
  [count |-> 1, headers |-> {Undef}, bodies |-> LongBodies,
   envs |-> {e \in Envs : e.AUTH_TOKEN = Undef /\ e.SUPABASE_URL # Undef}]

\* A run that exercises every way a request can end: one request, any
\* header, any environment, a body that fails validation or carries one of
\* the two image lists of the concurrent run.
LiveBodies ==
  [images : {Undef, Arr(<<>>)} \cup {Arr(l) : l \in CrowdLists},
   audio : AudioValues, outputPath : {Undef},
   width : {Undef}, height : {Undef}, fps : {Undef}]
LiveClients ==
  [count |-> 1, headers |-> TokenHeaders, bodies |-> LiveBodies, envs |-> Envs]

Sends(c) ==
  CASE c = "solo" -> SoloClients
    [] c = "live" -> LiveClients
    [] c = "twice" -> TwiceClients
    [] c = "detail" -> DetailClients
    [] c = "long" -> LongClients
    [] OTHER -> CrowdClients

(***************************************************************************)
(* Pure functions of the handler.                                          *)
(***************************************************************************)
DigitToken(d) ==
  CASE d = 0 -> "0" [] d = 1 -> "1" [] d = 2 -> "2" [] d = 3 -> "3"
    [] d = 4 -> "4" [] d = 5 -> "5" [] d = 6 -> "6" [] d = 7 -> "7"
    [] d = 8 -> "8" [] OTHER -> "9"

\* String(n) for a non-negative integer: its decimal digits
RECURSIVE ToDigits(_)
ToDigits(n) ==
  IF n < 10 THEN <<DigitToken(n)>>
  ELSE ToDigits(n \div 10) \o <<DigitToken(n % 10)>>

\* s.padStart(width, fill)
RECURSIVE PadStart(_, _, _)
PadStart(s, width, fill) ==
  IF Len(s) >= width THEN s ELSE PadStart(<<fill>> \o s, width, fill)

\* path.join(dir, name)
PathJoin(dir, name) == dir \o <<"/">> \o name

\* "/tmp/work-" + Date.now()
WorkDirAt(t) == <<"/tmp/work-">> \o ToDigits(t)

\* the index is cut to its last three digits
ImgNameThreeDigits(i) ==
  <<"img_">> \o PadStart(ToDigits(i % 1000), 3, "0") \o <<".png">>

\* `img_${String(i).padStart(3, "0")}.png`, i counted from 0 as in the code
ImgName(i) == <<"img_">> \o PadStart(ToDigits(i), 3, "0") \o <<".png">>

ImgPath(dir, i) == PathJoin(dir, ImgName(i))
AudioPath(dir) == PathJoin(dir, <<"audio.mp3">>)
ConcatPath(dir) == PathJoin(dir, <<"list.txt">>)
VideoPath(dir) == PathJoin(dir, <<"video.mp4">>)
FinalPath(dir) == PathJoin(dir, <<"final.mp4">>)

NaN == [t |-> "number", v |-> "NaN"]

\* Number(x)
ToNumber(x) ==
  CASE x.t = "number" -> x
    [] x.t = "undefined" -> NaN
    [] OTHER -> NaN

\* Number(images[i].duration || 3)
DurationOf(asset) == ToNumber(OrElse(asset.duration, Num(3)))

\* the text of list.txt, one element per line: the loop of lines 92-95
\* writes two lines for each image
ConcatEntries(imgs) ==
  [j \in 1..(2 * Len(imgs)) |->
     IF j % 2 = 1
     THEN [k |-> "file", file |-> imgs[(j + 1) \div 2].file]
     ELSE [k |-> "duration", duration |-> imgs[j \div 2].duration]]

\* the trailing repeat of the last image is forgotten
ConcatContentNoRepeat(imgs) ==
  <<[k |-> "ffconcat version 1.0"]>> \o ConcatEntries(imgs)

ConcatContent(imgs) ==
  <<[k |-> "ffconcat version 1.0"]>>
  \o ConcatEntries(imgs)
  \o <<[k |-> "file", file |-> imgs[Len(imgs)].file]>>

\* encodeURIComponent, token by token: "/" and " " are escaped, the other
\* tokens hold unreserved characters only
EncodeToken(c) ==
  CASE c = "/" -> "%2F"
    [] c = " " -> "%20"
    [] c = "%" -> "%25"
    [] OTHER -> c

encodeURIComponent(s) == [j \in DOMAIN s |-> EncodeToken(s[j])]

DefaultOutputPath == <<"stories", "/", "output.mp4">>
DefaultBucket == <<"videos">>

UploadUrl(base, bucket, outputPath) ==
  base \o <<"/storage/v1/object/">> \o encodeURIComponent(bucket)
  \o <<"/">> \o encodeURIComponent(outputPath)

\* the public URL is built from the raw outputPath
PublicUrlRaw(base, bucket, outputPath) ==
  base \o <<"/storage/v1/object/public/">> \o encodeURIComponent(bucket)
  \o <<"/">> \o outputPath

PublicUrl(base, bucket, outputPath) ==
  base \o <<"/storage/v1/object/public/">> \o encodeURIComponent(bucket)
  \o <<"/">> \o encodeURIComponent(outputPath)


VARIABLES
  clients,    \* who sends the requests of this run: "solo" or "crowd"
  env,        \* process.env, read-only after startup
  now,        \* the value Date.now() returns
  dirs,       \* directories that exist under /tmp
  files,      \* path -> [data, writer]: the files on disk
  storage,    \* object key -> data: the objects of the storage service
  pc,         \* per request: the await the handler is suspended at
  hdr,        \* per request: req.headers["x-auth-token"]
  body,       \* per request: req.body
  workDir,    \* per request: const workDir
  idx,        \* per request: the loop variable i of the download loop
  localImgs,  \* per request: const localImgs
  fileBuffer, \* per request: const fileBuffer
  log,        \* per request: the external calls the handler has issued
  resp        \* per request: the response sent (status, body)

vars == <<clients, env, now, dirs, files, storage, pc, hdr, body, workDir, idx,
          localImgs, fileBuffer, log, resp>>

(***************************************************************************)
(* The handler's locals that are functions of the request alone.           *)
(***************************************************************************)
AUTH_TOKEN == OrElse(env.AUTH_TOKEN, Str(<<>>))
SUPABASE_URL == env.SUPABASE_URL
SUPABASE_BUCKET == OrElse(env.SUPABASE_BUCKET_VIDEOS, Str(DefaultBucket))
SUPABASE_SERVICE_ROLE_KEY == env.SUPABASE_SERVICE_ROLE_KEY

images(r) == Default(body[r].images, Arr(<<>>))
audio(r) == body[r].audio
outputPath(r) == Default(body[r].outputPath, Str(DefaultOutputPath))
width(r) == Default(body[r].width, Num(1920))
height(r) == Default(body[r].height, Num(1080))
fps(r) == Default(body[r].fps, Num(25))

\* a request without the header is let through
UnauthorizedIfPresent(t) == Truthy(AUTH_TOKEN) /\ t # Undef /\ t # AUTH_TOKEN

\* if (AUTH_TOKEN) { if (t !== AUTH_TOKEN) return 401 }
Unauthorized(t) == Truthy(AUTH_TOKEN) /\ t # AUTH_TOKEN

\* if (!Array.isArray(images) || images.length === 0) return 400
ImagesInvalid(imgs) == ~IsArray(imgs) \/ Len(imgs.v) = 0

\* the audio check is forgotten
AudioInvalidNever(a) == FALSE

\* if (!audio) return 400
AudioInvalid(a) == ~Truthy(a)

\* && in place of ||
ConfigMissingBoth == ~Truthy(SUPABASE_URL) /\ ~Truthy(SUPABASE_SERVICE_ROLE_KEY)

\* if (!SUPABASE_URL || !SUPABASE_SERVICE_ROLE_KEY) throw
ConfigMissing == ~Truthy(SUPABASE_URL) \/ ~Truthy(SUPABASE_SERVICE_ROLE_KEY)

\* `${x}` in a template string
Interp(x) == IF x.t = "undefined" THEN <<"undefined">> ELSE x.v

\* the write is sent without the upsert flag
UploadHeadersNoUpsert ==
  [Authorization |-> <<"Bearer ">> \o Interp(SUPABASE_SERVICE_ROLE_KEY),
   ContentType |-> <<"video/mp4">>,
   xUpsert |-> <<"false">>]

\* the headers of the storage write
UploadHeaders ==
  [Authorization |-> <<"Bearer ">> \o Interp(SUPABASE_SERVICE_ROLE_KEY),
   ContentType |-> <<"video/mp4">>,
   xUpsert |-> <<"true">>]

(***************************************************************************)
(* The collaborators: remote hosts, the file system, the encoder, the      *)
(* storage service.                                                        *)
(***************************************************************************)
NoResp == [status |-> 0]

\* the bytes a remote host serves under a URL; an audio track plays for
\* some seconds
Fetched(url) ==
  [kind |-> "bytes", of |-> url, len |-> 1,
   seconds |-> IF url \in AudioUrls THEN 4 ELSE 0]

\* a download ends: written; non-ok status; transport failure; write failure
DownloadOutcomes == {"ok", "status", "reject", "error"}
IoOutcomes == {"ok", "error"}
ExitCodes == {0, 1}
\* ffmpeg writes its banner and its diagnostics to stderr
Stderrs == {<<"ffmpeg version N", "Invalid data found when processing input">>}
\* a storage write ends: stored and acknowledged; refused (any status but
\* ok); refused because the object exists; never delivered; stored, but the
\* reply is lost
UploadOutcomes == {"ok", "status", "duplicate", "reject", "lost"}

\* the concat demuxer: every `file` line is one shot, shown for the
\* duration of the `duration` line that follows it (if one follows)
Shots(c, disk) ==
  LET at == SelectSeq([j \in 1..Len(c) |-> j], LAMBDA j : c[j].k = "file")
  IN [n \in 1..Len(at) |->
        [img |-> disk[c[at[n]].file].data,
         duration |-> IF at[n] < Len(c) /\ c[at[n] + 1].k = "duration"
                      THEN c[at[n] + 1].duration ELSE Undef]]

ReferencedFiles(c) == {c[j].file : j \in {n \in DOMAIN c : c[n].k = "file"}}

\* the seconds a shot stays on screen: its duration if another shot
\* follows it; the last shot of a list is a single frame (the comment of
\* line 89: "repeat last image to make duration stick").  The sum over the
\* shots lo..hi.
RECURSIVE ShotSeconds(_, _, _)
ShotSeconds(shots, lo, hi) ==
  IF lo > hi THEN 0
  ELSE IF lo = hi
  THEN (IF lo = Len(shots) \/ shots[lo].duration = Undef
        THEN 0 ELSE shots[lo].duration.v)
  ELSE ShotSeconds(shots, lo, (lo + hi) \div 2)
       + ShotSeconds(shots, (lo + hi) \div 2 + 1, hi)

\* ffmpeg -f concat -i list.txt ... video.mp4
RenderVideo(c, disk) ==
  LET shots == Shots(c, disk)
  IN [kind |-> "video", shots |-> shots, len |-> Len(c),
      seconds |-> ShotSeconds(shots, 1, Len(shots))]

\* -shortest: the output ends with the shorter input
Shortest(x, y) == IF x <= y THEN x ELSE y

\* ffmpeg -i video.mp4 -i audio.mp3 ... -shortest final.mp4
MuxAudio(v, a) ==
  [kind |-> "muxed", video |-> v, audio |-> a, len |-> v.len + a.len,
   seconds |-> Shortest(v.seconds, a.seconds)]

\* the object key the storage service reads off the write URL: what
\* follows `${base}/storage/v1/object/`
ObjectKey(url, base) == SubSeq(url, Len(base) + 2, Len(url))

\* the storage service refuses a write to an existing object unless the
\* request carries x-upsert: true
MustRefuse(key, headers) ==
  key \in DOMAIN storage /\ headers.xUpsert # <<"true">>

(***************************************************************************)
(* The state after startup: no request has arrived.                        *)
(***************************************************************************)
Start(c) ==
  /\ clients = c
  /\ env \in Sends(c).envs
  /\ now = 0
  /\ dirs = {}
  /\ files = <<>>
  /\ storage = <<>>
  /\ pc = [r \in Requests |-> "idle"]
  /\ hdr = [r \in Requests |-> Undef]
  /\ body = [r \in Requests |-> Undef]
  /\ workDir = [r \in Requests |-> <<>>]
  /\ idx = [r \in Requests |-> 0]
  /\ localImgs = [r \in Requests |-> <<>>]
  /\ fileBuffer = [r \in Requests |-> Undef]
  /\ log = [r \in Requests |-> <<>>]
  /\ resp = [r \in Requests |-> NoResp]

Init == Start("crowd")

InitSolo == Start("solo")

InitTwice == Start("twice")

InitDetail == Start("detail")

InitLong == Start("long")

InitLive == Start("live")

(***************************************************************************)
(* log[r] lists the calls the handler of r has made to its collaborators,  *)
(* in the order made: the operation, its arguments, how it settled (st)    *)
(* and what it returned (res).                                             *)
(***************************************************************************)
Call(op, arg) == [op |-> op, arg |-> arg, st |-> "pending", res |-> Undef]

\* downloadToFile(url, outPath) is called
Download(url, outPath) == Call("download", [url |-> url, outPath |-> outPath])

\* run(cmd) is called
Run(pass, inputs, output, w, h) ==
  Call("exec", [pass |-> pass, inputs |-> inputs, output |-> output,
                width |-> w, height |-> h])

\* the awaited call (the last one issued) settles
Settle(l, st, res) == [l EXCEPT ![Len(l)].st = st, ![Len(l)].res = res]

WriteFile(disk, path, data, r) == (path :> [data |-> data, writer |-> r]) @@ disk

Err(message, details) == [message |-> message, details |-> details]

\* the status of the reply is not looked at
DownloadThrowsNoStatusCheck(o) == o \notin {"ok", "status"}

\* a failed download is skipped
DownloadThrowsNever(o) == FALSE

\* line 41 and the awaits of lines 40-43: downloadToFile throws
DownloadThrows(o) == o # "ok"

\* an awaited fs call throws
IoThrows(o) == o # "ok"

\* line 30: if (err) reject(err)
RunRejects(code) == code # 0

\* the status of the storage reply is not looked at
UploadThrowsOnRejectOnly(o) == o \in {"reject", "lost"}

\* a failed storage write is not noticed
UploadThrowsNever(o) == FALSE

\* line 122 (the await throws) and line 132: if (!upRes.ok) throw
UploadThrows(o) == o # "ok"

\* the workspace is removed when the handler returns
RemoveWorkspace(ds, d) == ds \ {d}

\* what the handler does to its workspace when it returns: nothing (no
\* exit path of lines 47-153 removes workDir)
LeaveWorkspace(ds, d) == ds

\* res.status(code).json(b); the handler returns
Respond(r, code, b) ==
  /\ resp' = [resp EXCEPT ![r] = [status |-> code, body |-> b]]
  /\ pc' = [pc EXCEPT ![r] = "end"]
  /\ dirs' = LeaveWorkspace(dirs, workDir[r])

\* the workspace is created before the request is checked
RejectAfterMkdir(r, code, message) ==
  /\ resp' = [resp EXCEPT ![r] = [status |-> code, body |-> [error |-> message]]]
  /\ pc' = [pc EXCEPT ![r] = "end"]
  /\ dirs' = dirs \cup {WorkDirAt(now)}
  /\ UNCHANGED <<workDir, log>>

\* lines 51, 64, 67: return res.status(code).json({ error }), before line 71
Reject(r, code, message) ==
  /\ Respond(r, code, [error |-> message])
  /\ UNCHANGED <<workDir, log>>

\* the body of the 500 response: { error: err.message, details: err.details || "" }
ErrorBody(err) ==
  [error |-> err.message, details |-> OrElse(err.details, Str(<<>>))]

\* the failed call is logged and issued again
CatchRetry(r, err, l) ==
  /\ log' = [log EXCEPT ![r] =
       Append(Append(l, Call("console.error", err)),
              Call(l[Len(l)].op, l[Len(l)].arg))]
  /\ UNCHANGED <<resp, pc, dirs>>

\* catch (err) { console.error(err); res.status(500).json(...) }
Catch(r, err, l) ==
  /\ log' = [log EXCEPT ![r] = Append(l, Call("console.error", err))]
  /\ Respond(r, 500, ErrorBody(err))

\* the clock of Date.now() advances
Tick ==
  /\ now < MaxClock
  /\ now' = now + 1
  /\ UNCHANGED <<clients, env, dirs, files, storage, pc, hdr, body, workDir, idx,
                 localImgs, fileBuffer, log, resp>>

\* lines 48-72: a request arrives; auth, validation, mkdir is issued.
\* Requests are numbered in their order of arrival.
Arrive(r) ==
  /\ pc[r] = "idle"
  /\ r <= Sends(clients).count
  /\ \A q \in Requests : q < r => pc[q] # "idle"
  /\ \E t \in Sends(clients).headers, b \in Sends(clients).bodies :
       /\ hdr' = [hdr EXCEPT ![r] = t]
       /\ body' = [body EXCEPT ![r] = b]
       /\ IF Unauthorized(t)
          THEN Reject(r, 401, <<"Unauthorized">>)
          ELSE IF ImagesInvalid(Default(b.images, Arr(<<>>)))
          THEN Reject(r, 400, <<"images[] required">>)
          ELSE IF AudioInvalid(b.audio)
          THEN Reject(r, 400, <<"audio url required">>)
          ELSE /\ workDir' = [workDir EXCEPT ![r] = WorkDirAt(now)]
               /\ log' = [log EXCEPT ![r] = <<Call("mkdir", WorkDirAt(now))>>]
               /\ pc' = [pc EXCEPT ![r] = "mkdir"]
               /\ UNCHANGED <<resp, dirs>>
  /\ UNCHANGED <<clients, env, now, files, storage, idx, localImgs, fileBuffer>>

\* the parameters of the downloadToFile call in progress
DlUrl(r) ==
  IF pc[r] = "img.download"
  THEN images(r).v[idx[r] + 1].url.v ELSE audio(r).v

DlOut(r) ==
  IF pc[r] = "img.download"
  THEN ImgPath(workDir[r], idx[r]) ELSE AudioPath(workDir[r])

\* line 72 settles; lines 75-80: the first image download is issued
MkdirDone(r) ==
  /\ pc[r] = "mkdir"
  /\ \E o \in IoOutcomes :
       IF IoThrows(o)
       THEN /\ Catch(r, Err(<<"EACCES: mkdir">>, Undef), Settle(log[r], o, Undef))
            /\ UNCHANGED <<idx, localImgs>>
       ELSE /\ dirs' = dirs \cup {workDir[r]}
            /\ idx' = [idx EXCEPT ![r] = 0]
            /\ localImgs' = [localImgs EXCEPT ![r] = <<>>]
            /\ log' = [log EXCEPT ![r] =
                 Append(Settle(@, o, Undef),
                        Download(images(r).v[1].url.v, ImgPath(workDir[r], 0)))]
            /\ pc' = [pc EXCEPT ![r] = "img.download"]
            /\ UNCHANGED resp
  /\ UNCHANGED <<clients, env, now, files, storage, hdr, body, workDir, fileBuffer>>

\* the error downloadToFile throws
DownloadError(o, url) ==
  CASE o = "status" -> Err(<<"Download failed: ">> \o url \o <<" -> 404">>, Undef)
    [] o = "reject" -> Err(<<"request to ">> \o url \o <<" failed">>, Undef)
    [] OTHER -> Err(<<"ENOSPC: write">>, Undef)

\* downloadToFile (lines 39-45) settles: fetch, status check, body, writeFile.
\* For an image: line 81 and the next iteration (or the audio download of
\* lines 85-86).  For the audio: lines 90-98, writeFile of list.txt is issued.
DownloadDone(r) ==
  /\ pc[r] \in {"img.download", "audio.download"}
  /\ \E o \in DownloadOutcomes :
       IF DownloadThrows(o)
       THEN /\ Catch(r, DownloadError(o, DlUrl(r)), Settle(log[r], o, Undef))
            /\ UNCHANGED <<files, localImgs, idx>>
       ELSE /\ files' = WriteFile(files, DlOut(r), Fetched(DlUrl(r)), r)
            /\ IF pc[r] = "img.download"
               THEN LET pushed == Append(localImgs[r],
                          [file |-> DlOut(r),
                           duration |-> DurationOf(images(r).v[idx[r] + 1])])
                        i == idx[r] + 1
                    IN /\ localImgs' = [localImgs EXCEPT ![r] = pushed]
                       /\ idx' = [idx EXCEPT ![r] = i]
                       /\ IF i < Len(images(r).v)
                          THEN /\ log' = [log EXCEPT ![r] =
                                    Append(Settle(@, o, Undef),
                                           Download(images(r).v[i + 1].url.v,
                                                    ImgPath(workDir[r], i)))]
                               /\ pc' = [pc EXCEPT ![r] = "img.download"]
                          ELSE /\ log' = [log EXCEPT ![r] =
                                    Append(Settle(@, o, Undef),
                                           Download(audio(r).v, AudioPath(workDir[r])))]
                               /\ pc' = [pc EXCEPT ![r] = "audio.download"]
               ELSE /\ log' = [log EXCEPT ![r] =
                         Append(Settle(@, o, Undef),
                                Call("writeFile",
                                     [path |-> ConcatPath(workDir[r]),
                                      data |-> ConcatContent(localImgs[r])]))]
                    /\ pc' = [pc EXCEPT ![r] = "list.write"]
                    /\ UNCHANGED <<localImgs, idx>>
            /\ UNCHANGED <<resp, dirs>>
  /\ UNCHANGED <<clients, env, now, storage, hdr, body, workDir, fileBuffer>>

\* line 98 settles; lines 101-104: encoder pass 1 is issued
ListWritten(r) ==
  /\ pc[r] = "list.write"
  /\ LET w == log[r][Len(log[r])].arg IN
     \E o \in IoOutcomes :
       IF IoThrows(o)
       THEN /\ Catch(r, Err(<<"ENOSPC: write">>, Undef), Settle(log[r], o, Undef))
            /\ UNCHANGED files
       ELSE /\ files' = WriteFile(files, w.path, w.data, r)
            /\ log' = [log EXCEPT ![r] =
                 Append(Settle(@, o, Undef),
                        Run(1, <<ConcatPath(workDir[r])>>, VideoPath(workDir[r]),
                            width(r), height(r)))]
            /\ pc' = [pc EXCEPT ![r] = "pass1"]
            /\ UNCHANGED <<resp, dirs>>
  /\ UNCHANGED <<clients, env, now, storage, hdr, body, workDir, idx,
                 localImgs, fileBuffer>>

\* stderr is not attached to the error
RunErrorNoStderr(pass, stderr) ==
  Err(<<"Command failed: ffmpeg", pass>>, Undef)

\* the error run() rejects with: err.details = stderr?.toString()
RunError(pass, stderr) ==
  Err(<<"Command failed: ffmpeg", pass>>, Str(stderr))

\* run() of line 104 settles (lines 29-35); lines 107-108: pass 2 is issued
Pass1Done(r) ==
  /\ pc[r] = "pass1"
  /\ LET list == ConcatPath(workDir[r]) IN
     \E code \in ExitCodes, stderr \in Stderrs :
       /\ code = 0 => /\ list \in DOMAIN files
                      /\ ReferencedFiles(files[list].data) \subseteq DOMAIN files
       /\ IF RunRejects(code)
          THEN /\ Catch(r, RunError("pass 1", stderr),
                        Settle(log[r], IF code = 0 THEN "ok" ELSE "exit", Str(stderr)))
               /\ UNCHANGED files
          ELSE /\ files' = IF code = 0
                           THEN WriteFile(files, VideoPath(workDir[r]),
                                          RenderVideo(files[list].data, files), r)
                           ELSE files
               /\ log' = [log EXCEPT ![r] =
                    Append(Settle(@, IF code = 0 THEN "ok" ELSE "exit", Str(stderr)),
                           Run(2, <<VideoPath(workDir[r]), AudioPath(workDir[r])>>,
                               FinalPath(workDir[r]), Undef, Undef))]
               /\ pc' = [pc EXCEPT ![r] = "pass2"]
               /\ UNCHANGED <<resp, dirs>>
  /\ UNCHANGED <<clients, env, now, storage, hdr, body, workDir, idx,
                 localImgs, fileBuffer>>

\* run() of line 108 settles; lines 111-119: the storage configuration is
\* checked and readFile of final.mp4 is issued
Pass2Done(r) ==
  /\ pc[r] = "pass2"
  /\ LET v == VideoPath(workDir[r])
         a == AudioPath(workDir[r])
     IN
     \E code \in ExitCodes, stderr \in Stderrs :
       /\ code = 0 => {v, a} \subseteq DOMAIN files
       /\ IF RunRejects(code)
          THEN /\ Catch(r, RunError("pass 2", stderr),
                        Settle(log[r], IF code = 0 THEN "ok" ELSE "exit", Str(stderr)))
               /\ UNCHANGED files
          ELSE /\ files' = IF code = 0
                           THEN WriteFile(files, FinalPath(workDir[r]),
                                          MuxAudio(files[v].data, files[a].data), r)
                           ELSE files
               /\ IF ConfigMissing
                  THEN Catch(r, Err(<<"Missing SUPABASE_URL or SUPABASE_SERVICE_ROLE_KEY">>,
                                    Undef),
                             Settle(log[r], IF code = 0 THEN "ok" ELSE "exit", Str(stderr)))
                  ELSE /\ log' = [log EXCEPT ![r] =
                            Append(Settle(@, IF code = 0 THEN "ok" ELSE "exit", Str(stderr)),
                                   Call("readFile", FinalPath(workDir[r])))]
                       /\ pc' = [pc EXCEPT ![r] = "final.read"]
                       /\ UNCHANGED <<resp, dirs>>
  /\ UNCHANGED <<clients, env, now, storage, hdr, body, workDir, idx,
                 localImgs, fileBuffer>>

\* line 119 settles; lines 120-130: the storage write is issued
ReadDone(r) ==
  /\ pc[r] = "final.read"
  /\ \E o \in IoOutcomes :
       /\ o = "ok" => FinalPath(workDir[r]) \in DOMAIN files
       /\ IF IoThrows(o)
          THEN /\ Catch(r, Err(<<"ENOENT: read">>, Undef), Settle(log[r], o, Undef))
               /\ UNCHANGED fileBuffer
          ELSE LET buf == files[FinalPath(workDir[r])].data IN
               /\ fileBuffer' = [fileBuffer EXCEPT ![r] = buf]
               /\ log' = [log EXCEPT ![r] =
                    Append(Settle(@, o, Undef),
                           Call("upload",
                                [url |-> UploadUrl(Interp(SUPABASE_URL),
                                                   Interp(SUPABASE_BUCKET),
                                                   Interp(outputPath(r))),
                                 headers |-> UploadHeaders,
                                 body |-> buf]))]
               /\ pc' = [pc EXCEPT ![r] = "upload"]
               /\ UNCHANGED <<resp, dirs>>
  /\ UNCHANGED <<clients, env, now, files, storage, hdr, body, workDir, idx,
                 localImgs>>

\* the body of the 200 response, lines 137-147
SuccessBody(r) ==
  [success |-> TRUE,
   url |-> PublicUrl(Interp(SUPABASE_URL), Interp(SUPABASE_BUCKET),
                     Interp(outputPath(r))),
   size |-> fileBuffer[r].len,
   frames |-> Len(images(r).v),
   fps |-> fps(r), width |-> width(r), height |-> height(r)]

\* the error of a storage write: the await of line 122 throws, or line 134
UploadError(o) ==
  IF o \in {"status", "duplicate"}
  THEN Err(<<"Supabase upload failed: ", o>>, Undef)
  ELSE Err(<<"request to storage failed">>, Undef)

\* the fetch of line 122 settles; lines 132-147: the response
UploadDone(r) ==
  /\ pc[r] = "upload"
  /\ LET sent == log[r][Len(log[r])].arg
         key == ObjectKey(sent.url, Interp(SUPABASE_URL))
     IN
     \E o \in UploadOutcomes :
       /\ o \in {"ok", "lost"} => ~MustRefuse(key, sent.headers)
       /\ o = "duplicate" => MustRefuse(key, sent.headers)
       /\ storage' = IF o \in {"ok", "lost"}
                     THEN (key :> sent.body) @@ storage ELSE storage
       /\ IF UploadThrows(o)
          THEN Catch(r, UploadError(o), Settle(log[r], o, Undef))
          ELSE /\ log' = [log EXCEPT ![r] = Settle(@, o, Undef)]
               /\ Respond(r, 200, SuccessBody(r))
  /\ UNCHANGED <<clients, env, now, files, hdr, body, workDir, idx, localImgs,
                 fileBuffer>>

Next ==
  \/ Tick
  \/ \E r \in Requests : Arrive(r)
  \/ \E r \in Requests : MkdirDone(r)
  \/ \E r \in Requests : DownloadDone(r)
  \/ \E r \in Requests : ListWritten(r)
  \/ \E r \in Requests : Pass1Done(r)
  \/ \E r \in Requests : Pass2Done(r)
  \/ \E r \in Requests : ReadDone(r)
  \/ \E r \in Requests : UploadDone(r)

Spec == Init /\ [][Next]_vars

SpecSolo == InitSolo /\ [][Next]_vars

SpecTwice == InitTwice /\ [][Next]_vars

SpecDetail == InitDetail /\ [][Next]_vars

SpecLong == InitLong /\ [][Next]_vars

\* Every awaited call settles: the fetches, the file operations and the
\* encoder runs return or fail.
CallsSettle ==
  \A r \in Requests :
    /\ WF_vars(MkdirDone(r)) /\ WF_vars(DownloadDone(r))
    /\ WF_vars(ListWritten(r)) /\ WF_vars(Pass1Done(r))
    /\ WF_vars(Pass2Done(r)) /\ WF_vars(ReadDone(r))
    /\ WF_vars(UploadDone(r))

SpecLive == InitLive /\ [][Next]_vars /\ CallsSettle

(***************************************************************************)
(* Vocabulary of the properties.                                           *)
(***************************************************************************)
Arrived(r) == pc[r] # "idle"
InFlight(r) == pc[r] \notin {"idle", "end"}
Accepted(r) == Arrived(r) /\ log[r] # <<>>
HasCall(r, op) == \E j \in DOMAIN log[r] : log[r][j].op = op
IsFile(l) == l.k = "file"
TokenConfigured == env.AUTH_TOKEN # Undef /\ env.AUTH_TOKEN # Str(<<>>)
StorageConfigured ==
  /\ env.SUPABASE_URL \notin {Undef, Str(<<>>)}
  /\ env.SUPABASE_SERVICE_ROLE_KEY \notin {Undef, Str(<<>>)}

(***************************************************************************)
(* C1: for every accepted request with N >= 1 images, the text written to  *)
(* list.txt has exactly N+1 file entries: the first N name the request's   *)
(* images in request order (the file of entry i holds the bytes of the     *)
(* i-th url), each followed by that image's duration (3 when the request   *)
(* gives none), and the last repeats the path of the N-th image with no    *)
(* duration line after it.                                                 *)
(***************************************************************************)
C1_TimelineEntries ==
  \A r \in Requests : \A j \in DOMAIN log[r] :
    (log[r][j].op = "writeFile" /\ log[r][j].st = "ok") =>
      LET c == files[log[r][j].arg.path].data
          imgs == images(r).v
          N == Len(imgs)
      IN /\ log[r][j].arg.path = ConcatPath(workDir[r])
         /\ c = log[r][j].arg.data
         /\ N >= 1
         /\ Len(SelectSeq(c, IsFile)) = N + 1
         /\ Len(c) = 2 * N + 2
         /\ \A i \in 1..N :
              /\ c[2 * i] = [k |-> "file", file |-> ImgPath(workDir[r], i - 1)]
              /\ files[c[2 * i].file].data = Fetched(imgs[i].url.v)
              /\ c[2 * i + 1] =
                   [k |-> "duration",
                    duration |-> IF imgs[i].duration = Undef
                                 THEN Num(3) ELSE imgs[i].duration]
         /\ c[2 * N + 2] = c[2 * N]

\* a request with the longest list, one image without and one with a
\* duration, has written its list.txt
C1_Witness ==
  \E r \in Requests :
    /\ pc[r] = "pass1"
    /\ Len(images(r).v) = MaxImages
    /\ images(r).v[1].duration = Undef
    /\ images(r).v[MaxImages].duration = Num(2)

(***************************************************************************)
(* C2 as stated: every request whose images field is missing, not a list   *)
(* or empty, and every request whose audio field is missing, is answered   *)
(* 400 and makes no call (no download, no encoder run, no upload).         *)
(***************************************************************************)
BodyInvalid(r) ==
  \/ body[r].images = Undef
  \/ body[r].images.t # "array"
  \/ body[r].images.v = <<>>
  \/ body[r].audio = Undef

C2_InvalidAnswered400 ==
  \A r \in Requests :
    (Arrived(r) /\ BodyInvalid(r)) => (resp[r].status = 400 /\ log[r] = <<>>)

(***************************************************************************)
(* C2 amended: such a request is answered 400 when it passes the token     *)
(* check (no token configured, or the header equals it) and 401 when it    *)
(* does not; in both cases the handler makes no call for it.               *)
(***************************************************************************)
C2_InvalidRejected ==
  \A r \in Requests :
    (Arrived(r) /\ BodyInvalid(r)) =>
      /\ log[r] = <<>>
      /\ pc[r] = "end"
      /\ resp[r].status =
           IF TokenConfigured /\ hdr[r] # env.AUTH_TOKEN THEN 401 ELSE 400

\* a request with images but no audio was answered 400
C2_Witness ==
  \E r \in Requests :
    /\ resp[r].status = 400
    /\ body[r].images.t = "array" /\ body[r].images.v # <<>>
    /\ body[r].audio = Undef

(***************************************************************************)
(* The stages of the orchestrator, read off the calls of a request: the    *)
(* calls a request makes are, in order, mkdir, one download per image,     *)
(* the audio download, writeFile of list.txt, encoder pass 1, encoder      *)
(* pass 2, readFile of final.mp4 and the storage write.                    *)
(***************************************************************************)
IsWork(e) == e.op # "console.error"
Work(r) == SelectSeq(log[r], IsWork)
Ops(l) == [j \in DOMAIN l |-> l[j].op]
IsPrefix(a, b) == Len(a) <= Len(b) /\ a = SubSeq(b, 1, Len(a))
Pipeline(n) ==
  <<"mkdir">> \o [i \in 1..(n + 1) |-> "download"]
  \o <<"writeFile", "exec", "exec", "readFile", "upload">>
Succeeded(r) == Cardinality({j \in DOMAIN Work(r) : Work(r)[j].st = "ok"})

Stage(r) ==
  LET n == Len(images(r).v)
      k == Succeeded(r)
  IN CASE resp[r].status = 200 -> "Done"
       [] resp[r].status = 500 -> "Failed"
       [] k = 0 -> "Idle"
       [] k <= n + 1 -> "WorkspaceCreated"
       [] k = n + 2 -> "AssetsFetched"
       [] k = n + 3 -> "TimelineBuilt"
       [] k = n + 4 -> "VideoRendered"
       [] OTHER -> "AudioMuxed"

\* Published and Done are reached in the same step: lines 132-147 have no await
NextStage(st) ==
  CASE st = "Idle" -> "WorkspaceCreated"
    [] st = "WorkspaceCreated" -> "AssetsFetched"
    [] st = "AssetsFetched" -> "TimelineBuilt"
    [] st = "TimelineBuilt" -> "VideoRendered"
    [] st = "VideoRendered" -> "AudioMuxed"
    [] st = "AudioMuxed" -> "Done"
    [] OTHER -> st

C3_CallsInOrder ==
  \A r \in Requests :
    Accepted(r) =>
      LET w == Work(r) IN
      /\ IsPrefix(Ops(w), Pipeline(Len(images(r).v)))
      /\ \A j \in DOMAIN w : j < Len(w) => w[j].st = "ok"
      /\ w[Len(w)].st = "pending" <=> InFlight(r)
      /\ resp[r].status \in {0, 200, 500}
      /\ resp[r].status = 0 <=> InFlight(r)
      /\ resp[r].status = 200 =>
           (Len(w) = Len(Pipeline(Len(images(r).v))) /\ w[Len(w)].st = "ok")
      /\ w[Len(w)].st \notin {"ok", "pending"} => resp[r].status = 500

C3_Step ==
  \A r \in Requests :
    Accepted(r) =>
      /\ Stage(r)' \in {Stage(r), NextStage(Stage(r)), "Failed"}
      /\ Stage(r) \in {"Done", "Failed"} => (log[r]' = log[r] /\ resp[r]' = resp[r])

(***************************************************************************)
(* C3: every request that passes validation moves through the stages      *)
(* WorkspaceCreated, AssetsFetched, TimelineBuilt, VideoRendered,          *)
(* AudioMuxed, Published, Done in that order, skipping none; the first     *)
(* error moves it to Failed (a 500 response), and after that no further    *)
(* call (download, encoder pass, upload) is made for it.                   *)
(***************************************************************************)
C3_StagesInOrder == [](C3_CallsInOrder) /\ [][C3_Step]_vars

\* a request with the longest list went through every stage and is Done
C3_Witness ==
  \E r \in Requests :
    /\ resp[r].status = 200
    /\ Len(images(r).v) = MaxImages
    /\ Ops(Work(r)) = Pipeline(MaxImages)

(***************************************************************************)
(* C6: whenever an encoder pass exits non-zero, the response is 500 with   *)
(* error set and details holding the captured stderr, which is not empty,  *)
(* and the request makes no later encoder pass and no storage write.       *)
(***************************************************************************)
C6_EncoderFailure ==
  \A r \in Requests : \A j \in DOMAIN log[r] :
    (log[r][j].op = "exec" /\ log[r][j].st = "exit") =>
      /\ resp[r].status = 500
      /\ resp[r].body.error # <<>>
      /\ resp[r].body.details = log[r][j].res
      /\ resp[r].body.details.v # <<>>
      /\ \A i \in DOMAIN log[r] : i > j => log[r][i].op \notin {"exec", "upload"}

\* pass 1 of a request exited non-zero
C6_Witness ==
  \E r \in Requests : \E j \in DOMAIN log[r] :
    /\ log[r][j].op = "exec" /\ log[r][j].arg.pass = 1 /\ log[r][j].st = "exit"
    /\ pc[r] = "end"

(***************************************************************************)
(* C7: when the storage URL or the storage credential is absent, every     *)
(* validated request whose downloads and encoder passes succeed ends with  *)
(* a 500 response without a url field, and no write is sent to storage.    *)
(***************************************************************************)
Pass2Ok(r) ==
  \E j \in DOMAIN log[r] :
    log[r][j].op = "exec" /\ log[r][j].arg.pass = 2 /\ log[r][j].st = "ok"

C7_NoConfigNoUpload ==
  ~StorageConfigured =>
    /\ storage = <<>>
    /\ \A r \in Requests :
         /\ ~HasCall(r, "upload")
         /\ Pass2Ok(r) =>
              /\ pc[r] = "end"
              /\ resp[r].status = 500
              /\ "url" \notin DOMAIN resp[r].body

\* the credential is absent (the URL is set) and a request came through
\* both encoder passes
C7_Witness ==
  /\ env.SUPABASE_URL # Undef
  /\ env.SUPABASE_SERVICE_ROLE_KEY = Undef
  /\ \E r \in Requests : Pass2Ok(r)

(***************************************************************************)
(* C8: the encoder is not invoked for a request before each of its images  *)
(* and its audio track has been downloaded and written; when a download    *)
(* fails (non-ok status, transport failure), the request makes no encoder  *)
(* pass and no upload.                                                     *)
(***************************************************************************)
Downloaded(r, before, url, out) ==
  \E k \in 1..(before - 1) :
    /\ log[r][k].op = "download" /\ log[r][k].st = "ok"
    /\ log[r][k].arg = [url |-> url, outPath |-> out]
    /\ out \in DOMAIN files

C8_FetchBeforeEncode ==
  \A r \in Requests : \A j \in DOMAIN log[r] :
    /\ log[r][j].op = "exec" =>
         /\ \A i \in DOMAIN images(r).v :
              Downloaded(r, j, images(r).v[i].url.v, ImgPath(workDir[r], i - 1))
         /\ Downloaded(r, j, audio(r).v, AudioPath(workDir[r]))
    /\ (log[r][j].op = "download" /\ log[r][j].st \notin {"ok", "pending"}) =>
         /\ ~HasCall(r, "exec")
         /\ ~HasCall(r, "upload")
         /\ resp[r].status = 500

\* the download of a later image of a request got a non-ok status
C8_Witness ==
  \E r \in Requests : \E j \in DOMAIN log[r] :
    /\ log[r][j].op = "download" /\ log[r][j].st = "status"
    /\ log[r][j].arg.outPath = ImgPath(workDir[r], 1)

(***************************************************************************)
(* C10: when a token is configured, every request whose X-Auth-Token       *)
(* header is absent or differs from it is answered 401, whatever its body, *)
(* and makes no call (no workspace, download, encoder run or upload); when *)
(* no token is configured, no request is answered 401.                     *)
(***************************************************************************)
C10_Auth ==
  \A r \in Requests :
    Arrived(r) =>
      /\ (TokenConfigured /\ hdr[r] # env.AUTH_TOKEN) =>
           /\ resp[r].status = 401
           /\ log[r] = <<>>
           /\ workDir[r] = <<>>
           /\ pc[r] = "end"
      /\ ~TokenConfigured => resp[r].status # 401

\* a token is configured and a valid request without the header was answered
C10_Witness ==
  \E r \in Requests :
    /\ Arrived(r)
    /\ TokenConfigured
    /\ hdr[r] = Undef
    /\ ~BodyInvalid(r)
    /\ resp[r].status = 401

(***************************************************************************)
(* C4: no two requests that are in flight at the same time hold the same   *)
(* workspace directory, also when both create it at the same clock value.  *)
(***************************************************************************)
C4_UniqueWorkspace ==
  \A r, q \in Requests :
    (r # q /\ InFlight(r) /\ InFlight(q)) => workDir[r] # workDir[q]

(***************************************************************************)
(* C5: while a request is in flight, no file it wrote into its workspace   *)
(* is overwritten by another request, and the artifact it uploads is built *)
(* only from the images and the audio it downloaded itself.                *)
(***************************************************************************)
WrittenPath(e) ==
  IF e.op = "download" THEN e.arg.outPath
  ELSE IF e.op = "writeFile" THEN e.arg.path
  ELSE e.arg.output

\* the workspace as the request alone would have filled it
OwnDisk(r) ==
  [p \in {ImgPath(workDir[r], i - 1) : i \in DOMAIN images(r).v} |->
     [data |-> Fetched(images(r).v[CHOOSE i \in DOMAIN images(r).v :
                                     ImgPath(workDir[r], i - 1) = p].url.v)]]

OwnList(r) ==
  [i \in 1..(2 * Len(images(r).v) + 2) |->
     IF i = 1 THEN [k |-> "ffconcat version 1.0"]
     ELSE IF i = 2 * Len(images(r).v) + 2
          THEN [k |-> "file", file |-> ImgPath(workDir[r], Len(images(r).v) - 1)]
     ELSE IF i % 2 = 0
          THEN [k |-> "file", file |-> ImgPath(workDir[r], (i \div 2) - 1)]
     ELSE [k |-> "duration",
           duration |-> IF images(r).v[i \div 2].duration = Undef
                        THEN Num(3) ELSE images(r).v[i \div 2].duration]]

OwnArtifact(r) ==
  MuxAudio(RenderVideo(OwnList(r), OwnDisk(r)), Fetched(audio(r).v))

C5_WorkspaceIsolated ==
  \A r \in Requests : \A j \in DOMAIN log[r] :
    /\ (InFlight(r) /\ log[r][j].op \in {"download", "writeFile", "exec"}
          /\ log[r][j].st = "ok") =>
         files[WrittenPath(log[r][j])].writer = r
    /\ log[r][j].op = "upload" => log[r][j].arg.body = OwnArtifact(r)

(***************************************************************************)
(* C9: publishing twice to the same outputPath does not fail on the second *)
(* write: every storage write carries x-upsert: true and none is refused   *)
(* because the object exists, and any two success responses for the same   *)
(* outputPath carry the same public URL.                                   *)
(***************************************************************************)
C9_Upsert ==
  \A r \in Requests :
    /\ \A j \in DOMAIN log[r] :
         log[r][j].op = "upload" =>
           /\ log[r][j].arg.headers.xUpsert = <<"true">>
           /\ log[r][j].st # "duplicate"
    /\ \A q \in Requests :
         (resp[r].status = 200 /\ resp[q].status = 200
            /\ outputPath(r) = outputPath(q)) =>
           resp[r].body.url = resp[q].body.url

\* two requests with different images published to the same outputPath, not
\* the default one, and both were answered 200
C9_Witness ==
  \E r, q \in Requests :
    /\ r # q
    /\ resp[r].status = 200 /\ resp[q].status = 200
    /\ body[r].outputPath # Undef
    /\ body[r].outputPath = body[q].outputPath
    /\ body[r].images # body[q].images
    /\ Cardinality(DOMAIN storage) = 1

(***************************************************************************)
(* C11: every 200 response carries success = true, the public-read URL of  *)
(* the object the storage write was addressed to (same bucket, same        *)
(* outputPath), the byte size of the uploaded artifact, the number of      *)
(* images of the request as frames, and the request's fps, width and       *)
(* height, or 25, 1920 and 1080 where the request omits them.              *)
(***************************************************************************)
UploadCall(r) == log[r][CHOOSE j \in DOMAIN log[r] : log[r][j].op = "upload"].arg
GivenOr(x, d) == IF x = Undef THEN Num(d) ELSE x

C11_SuccessBody ==
  \A r \in Requests :
    resp[r].status = 200 =>
      LET b == resp[r].body
          sent == UploadCall(r)
          base == env.SUPABASE_URL.v
          key == ObjectKey(sent.url, base)
          bucket == IF env.SUPABASE_BUCKET_VIDEOS = Undef
                    THEN <<"videos">> ELSE env.SUPABASE_BUCKET_VIDEOS.v
          path == IF body[r].outputPath = Undef
                  THEN <<"stories", "/", "output.mp4">> ELSE body[r].outputPath.v
      IN /\ b.success = TRUE
         /\ sent.url = base \o <<"/storage/v1/object/">> \o key
         /\ key = encodeURIComponent(bucket) \o <<"/">> \o encodeURIComponent(path)
         /\ b.url = base \o <<"/storage/v1/object/public/">> \o key
         /\ key \in DOMAIN storage
         /\ b.size = sent.body.len
         /\ b.frames = Len(body[r].images.v)
         /\ b.fps = GivenOr(body[r].fps, 25)
         /\ b.width = GivenOr(body[r].width, 1920)
         /\ b.height = GivenOr(body[r].height, 1080)

\* a request that gives its width and its outputPath and omits its fps is
\* answered 200 after a write to a named bucket
C11_Witness ==
  \E r \in Requests :
    /\ resp[r].status = 200
    /\ body[r].width = Num(640) /\ body[r].fps = Undef
    /\ body[r].outputPath # Undef
    /\ env.SUPABASE_BUCKET_VIDEOS # Undef
    /\ Len(body[r].images.v) = MaxImages

(***************************************************************************)
(* C12: every error response (401, 400 or 500) is preceded by a log entry  *)
(* of the failure: no request ends with an error response without one.     *)
(***************************************************************************)
Logged(r) == \E j \in DOMAIN log[r] : log[r][j].op = "console.error"

C12_FailuresLogged ==
  \A r \in Requests : resp[r].status \in {400, 401, 500} => Logged(r)

(***************************************************************************)
(* C13: if every external call eventually returns or fails, every request  *)
(* that arrives eventually ends with a response (401, 400, 500 or 200);    *)
(* once it has its response nothing more happens for it (one terminal      *)
(* state, one response); and no download (of one image, or of the audio),  *)
(* no encoder pass and no storage write is issued a second time.           *)
(***************************************************************************)
Answered(r) == pc[r] = "end" /\ resp[r].status \in {200, 400, 401, 500}

\* what tells two calls of one request apart
CallKey(e) ==
  CASE e.op = "download" -> <<e.op, e.arg.outPath>>
    [] e.op = "exec" -> <<e.op, e.arg.pass>>
    [] OTHER -> <<e.op>>

C13_NoRetry ==
  \A r \in Requests :
    /\ resp[r] # NoResp =>
         resp'[r] = resp[r] /\ pc'[r] = pc[r] /\ log'[r] = log[r]
    /\ \A j \in DOMAIN log'[r] :
         (j > Len(log[r]) /\ log'[r][j].op \in {"download", "exec", "upload"}) =>
           \A k \in 1..(j - 1) : CallKey(log'[r][k]) # CallKey(log'[r][j])

C13_Terminates ==
  /\ \A r \in Requests : Arrived(r) ~> Answered(r)
  /\ [](\A r \in Requests : resp[r] # NoResp <=> pc[r] = "end")
  /\ [][C13_NoRetry]_vars

\* a request has ended after its storage write failed: every call was
\* made, each once
C13_Witness ==
  \E r \in Requests :
    /\ Answered(r) /\ resp[r].status = 500
    /\ HasCall(r, "upload")
    /\ Len(images(r).v) = MaxImages

(***************************************************************************)
(* C14: the artifact a request uploads plays for the minimum of the sum of *)
(* the display durations of the request's images (3 for an image without   *)
(* one) and the duration of the request's audio.                           *)
(***************************************************************************)
DisplaySeconds(a) == IF a.duration \in {Undef, Num(0)} THEN 3 ELSE a.duration.v

RECURSIVE SumSeconds(_, _, _)
SumSeconds(imgs, lo, hi) ==
  IF lo > hi THEN 0
  ELSE IF lo = hi THEN DisplaySeconds(imgs[lo])
  ELSE SumSeconds(imgs, lo, (lo + hi) \div 2)
       + SumSeconds(imgs, (lo + hi) \div 2 + 1, hi)

C14_Duration ==
  \A r \in Requests : \A j \in DOMAIN log[r] :
    log[r][j].op = "upload" =>
      LET total == SumSeconds(body[r].images.v, 1, Len(body[r].images.v))
          track == Fetched(body[r].audio.v).seconds
      IN log[r][j].arg.body.seconds = IF total <= track THEN total ELSE track

(***************************************************************************)
(* C15: the handler never deletes a workspace: no step removes a directory *)
(* or a file, and the workspace of every request whose mkdir succeeded     *)
(* still exists, whether the request is in flight, done or failed.         *)
(***************************************************************************)
C15_Kept ==
  \A r \in Requests :
    (Accepted(r) /\ log[r][1].st = "ok") => workDir[r] \in dirs

C15_NeverShrinks ==
  /\ [](C15_Kept)
  /\ [][dirs \subseteq dirs' /\ DOMAIN files \subseteq DOMAIN files']_vars

\* two requests have ended, one done and one failed, and both workspaces
\* are on disk
C15_Witness ==
  \E r, q \in Requests :
    /\ resp[r].status = 200 /\ resp[q].status = 500
    /\ workDir[r] # workDir[q]
    /\ {workDir[r], workDir[q]} \subseteq dirs

(***************************************************************************)
(* C16: the downloads of a request are sequential and in request order:    *)
(* the k-th download is that of image k into img_<k-1>, the one after the  *)
(* last image is that of the audio; a download is issued only when every   *)
(* earlier one has completed and been written to disk, so at most one is   *)
(* outstanding; and when a download fails nothing is fetched after it.     *)
(***************************************************************************)
IsDownload(e) == e.op = "download"
Downloads(r) == SelectSeq(log[r], IsDownload)

C16_SequentialDownloads ==
  \A r \in Requests :
    Accepted(r) =>
      LET d == Downloads(r)
          imgs == body[r].images.v
          N == Len(imgs)
      IN /\ Len(d) <= N + 1
         /\ \A k \in DOMAIN d :
              /\ k <= N => d[k].arg = [url |-> imgs[k].url.v,
                                       outPath |-> workDir[r] \o <<"/">> \o ImgName(k - 1)]
              /\ k = N + 1 => d[k].arg = [url |-> body[r].audio.v,
                                          outPath |-> workDir[r] \o <<"/", "audio.mp3">>]
              /\ k < Len(d) => /\ d[k].st = "ok"
                               /\ d[k].arg.outPath \in DOMAIN files
              /\ d[k].st = "pending" =>
                   k = Len(d) /\ log[r][Len(log[r])] = d[k]
              /\ d[k].st \notin {"ok", "pending"} =>
                   k = Len(d) /\ pc[r] = "end" /\ resp[r].status = 500

\* the download of the second image failed after the first was written:
\* the audio was never fetched
C16_Witness ==
  \E r \in Requests :
    /\ Accepted(r)
    /\ Len(body[r].images.v) = MaxImages
    /\ Len(Downloads(r)) = 2
    /\ Downloads(r)[2].st = "status"
    /\ pc[r] = "end"

(***************************************************************************)
(* C17 as stated: the storage write is sent only after both encoder passes *)
(* succeeded; whenever the storage service accepts the write (stores the   *)
(* object) the request ends with 200; no request ends with 500 after its   *)
(* artifact was accepted; no request ends with 200 without an accepted     *)
(* write.                                                                  *)
(***************************************************************************)
PassOk(r, n) ==
  \E j \in DOMAIN log[r] :
    log[r][j].op = "exec" /\ log[r][j].arg.pass = n /\ log[r][j].st = "ok"

\* the storage service stored the object of the request's write
Stored(r) ==
  \E j \in DOMAIN log[r] :
    log[r][j].op = "upload" /\ log[r][j].st \in {"ok", "lost"}

\* the storage service's ok reply reached the handler
Acknowledged(r) ==
  \E j \in DOMAIN log[r] : log[r][j].op = "upload" /\ log[r][j].st = "ok"

C17_UploadLast ==
  \A r \in Requests :
    Accepted(r) =>
      /\ HasCall(r, "upload") => PassOk(r, 1) /\ PassOk(r, 2)
      /\ Stored(r) => resp[r].status = 200
      /\ resp[r].status = 500 => ~Stored(r)
      /\ resp[r].status = 200 => Stored(r)

(***************************************************************************)
(* C17, amended: the storage write is sent only after both encoder passes  *)
(* succeeded; whenever the ok reply of the storage service reaches the     *)
(* handler the request ends with 200; no request ends with 200 without a   *)
(* stored and acknowledged write; a request ends with 500 after its        *)
(* artifact was stored only when the reply to the write was lost.          *)
(***************************************************************************)
C17_UploadLastAcknowledged ==
  \A r \in Requests :
    Accepted(r) =>
      /\ HasCall(r, "upload") => PassOk(r, 1) /\ PassOk(r, 2)
      /\ Acknowledged(r) => resp[r].status = 200
      /\ resp[r].status = 200 =>
           /\ Acknowledged(r)
           /\ ObjectKey(UploadCall(r).url, env.SUPABASE_URL.v) \in DOMAIN storage
      /\ (resp[r].status = 500 /\ Stored(r)) =>
           \E j \in DOMAIN log[r] : log[r][j].op = "upload" /\ log[r][j].st = "lost"

\* a request has ended with 500 although the storage service stored its
\* artifact: the reply was lost
C17_Witness ==
  \E r \in Requests :
    /\ resp[r].status = 500
    /\ Stored(r)
    /\ ObjectKey(UploadCall(r).url, env.SUPABASE_URL.v) \in DOMAIN storage

(***************************************************************************)
(* C18: every duration line written to list.txt carries a positive number: *)
(* the duration the request gives for that image, or 3 when it gives none. *)
(***************************************************************************)
C18_PositiveDurations ==
  \A r \in Requests : \A j \in DOMAIN log[r] :
    log[r][j].op = "writeFile" =>
      LET c == log[r][j].arg.data IN
      \A n \in DOMAIN c :
        c[n].k = "duration" =>
          LET given == body[r].images.v[(n - 1) \div 2].duration IN
          /\ c[n].duration.t = "number"
          /\ c[n].duration.v > 0
          /\ c[n].duration = IF given = Undef THEN Num(3) ELSE given

(***************************************************************************)
(* C19: a request rejected with 401 or 400 creates no workspace directory  *)
(* and writes no file: the step that rejects it leaves the directories and *)
(* the files as they are, and the request has no workspace, has made no    *)
(* call and has written no file.                                           *)
(***************************************************************************)
Rejected(r) == resp[r].status \in {400, 401}

C19_RejectStep ==
  \A r \in Requests :
    (resp[r] = NoResp /\ resp'[r].status \in {400, 401}) =>
      dirs' = dirs /\ files' = files

C19_NoFootprint ==
  \A r \in Requests :
    Rejected(r) =>
      /\ workDir[r] = <<>>
      /\ log[r] = <<>>
      /\ \A p \in DOMAIN files : files[p].writer # r

C19_RejectedLeavesNothing ==
  /\ [](C19_NoFootprint)
  /\ [][C19_RejectStep]_vars

\* a request was rejected after another had filled its workspace
C19_Witness ==
  \E r, q \in Requests :
    /\ Rejected(r)
    /\ resp[q].status = 200
    /\ workDir[q] \in dirs
    /\ dirs = {workDir[q]}

(***************************************************************************)
(* C20: within the workspace of one request the local paths are pairwise   *)
(* distinct, also for image indices of 1000 and more: no two calls of the  *)
(* request write to the same path, no image path is that of audio.mp3,     *)
(* list.txt, video.mp4 or final.mp4, and in the workspace the handler has  *)
(* just named the paths of the images 0..LongLen-1 and of the four fixed   *)
(* files all differ.                                                       *)
(***************************************************************************)
IsWrite(e) == e.op \in {"download", "writeFile", "exec"}
Writes(r) == SelectSeq(log[r], IsWrite)
FixedPaths(r) ==
  {workDir[r] \o <<"/", n>> : n \in {"audio.mp3", "list.txt", "video.mp4", "final.mp4"}}
NamedPaths(r) == {ImgPath(workDir[r], i) : i \in 0..(LongLen - 1)}

C20_DistinctPaths ==
  \A r \in Requests :
    Accepted(r) =>
      LET w == Writes(r)
          N == Len(body[r].images.v)
      IN /\ Cardinality({WrittenPath(w[j]) : j \in DOMAIN w}) = Len(w)
         /\ \A j \in DOMAIN w :
              (w[j].op = "download" /\ j <= N) =>
                WrittenPath(w[j]) \notin FixedPaths(r)
         /\ pc[r] = "mkdir" =>
              Cardinality(NamedPaths(r) \cup FixedPaths(r)) = LongLen + 4

\* a request with more than 1000 images has written its first two images,
\* to two paths
C20_Witness ==
  \E r \in Requests :
    /\ Accepted(r)
    /\ Len(body[r].images.v) > 1000
    /\ idx[r] = 2
    /\ Cardinality({p \in DOMAIN files : files[p].writer = r}) = 2

====
